---- MODULE Spec2Model ----
(***************************************************************************)
(* Collidable (src/collidable.rs): the circle / polygon shape value of a   *)
(* collision subsystem, its four constructors and update_normals.          *)
(*                                                                         *)
(* Numbers.  f32 lengths and coordinates are fixed-point integers with FP  *)
(* units per 1.0, drawn from multiples of FP so that the halvings and      *)
(* doublings of the code are exact.  Angles are integers in units of       *)
(* pi/32 radians, drawn from even values so that rad / 2 is exact.         *)
(* usize is an unsigned integer of UsizeBits bits.                         *)
(***************************************************************************)
EXTENDS Integers, Sequences, FiniteSets, TLC

VARIABLES
    c,                \* the Collidable value held by the owner
    outcome,          \* "ok", or how the last constructor call died
    overflow_checks,  \* build profile: integer overflow panics (TRUE) or wraps
    ctor,             \* the constructor call that built c, with its arguments
    last,             \* name of the last operation applied
    updates,          \* consecutive update_normals calls so far (0, 1, 2 = more)
    snap,             \* vertex arrays at the last construction / update_normals
    muts              \* vertex mutations since construction

vars == <<c, outcome, overflow_checks, ctor, last, updates, snap, muts>>

----------------------------------------------------------------------------
(* Bounds of the model *)

MaxLen == 2          \* longest generic vertex vector handed to new_poly
MaxMutations == 2    \* in-place vertex mutations explored per object
UsizeBits == 8       \* width of usize in the model

----------------------------------------------------------------------------
(* f32 arithmetic *)

FP == 1024

Half(v) == v \div 2      \* v * 0.5, v / 2.
Twice(v) == v * 2        \* v * 2.

PI == 32

\* 2. * consts::PI * 0.0625
minor_arc_sixteenth == PI \div 16

minor_arc == (2 * PI) \div 16

----------------------------------------------------------------------------
(* usize arithmetic *)

UsizeMax == 2^UsizeBits - 1

\* `f as usize` on a floored f32: saturating
AsUsize(q) == IF q < 0 THEN 0 ELSE IF q > UsizeMax THEN UsizeMax ELSE q

Wrap(n) == n % (UsizeMax + 1)

\* a Vec<f32> holds at most isize::MAX bytes of 4-byte elements
VecMaxLen == (UsizeMax \div 2) \div 4

----------------------------------------------------------------------------
(* nalgebra: Vector2, normalize, Rotation2::rotate.  A direction vector is *)
(* kept in polar form; centre + dir converts it to coordinates.            *)

CosT == <<
       1024, 1019, 1004, 980, 946, 903, 851, 792,
       724, 650, 569, 483, 392, 297, 200, 100,
       0, -100, -200, -297, -392, -483, -569, -650,
       -724, -792, -851, -903, -946, -980, -1004, -1019,
       -1024, -1019, -1004, -980, -946, -903, -851, -792,
       -724, -650, -569, -483, -392, -297, -200, -100,
       0, 100, 200, 297, 392, 483, 569, 650,
       724, 792, 851, 903, 946, 980, 1004, 1019 >>

Cos(a) == CosT[(a % (2 * PI)) + 1]
Sin(a) == Cos(a - (PI \div 2))

\* the direction vectors the callers pass, not pre-normalized
Dirs == { <<1, 0>>, <<0, 2>>, <<-3, 0>> }

\* nalgebra::normalize(&Vector2::new(dirx, diry))
normalize(d) ==
    [ang |-> CASE d = <<1, 0>> -> 0
               [] d = <<0, 2>> -> PI \div 2
               [] d = <<-3, 0>> -> PI,
     len |-> FP]

\* Rotation2::new(Vector1::new(angle)).rotate(&v)
Rotate(angle, v) == [v EXCEPT !.ang = (v.ang + angle) % (2 * PI)]

\* v * r
Scaled(v, r) == [v EXCEPT !.len = (v.len * r) \div FP]

\* (centre + dir).x, (centre + dir).y
PointX(cx, v) == cx + ((v.len * Cos(v.ang)) \div FP)
PointY(cy, v) == cy + ((v.len * Sin(v.ang)) \div FP)

----------------------------------------------------------------------------
(* util::calc_normx, util::calc_normy: the edge-normal oracle.  For edge   *)
(* i -> (i+1) mod nvert the x component is the edge's delta-y, the y       *)
(* component its negated delta-x; the result has nvert entries.            *)

At(s, i) == IF i \in DOMAIN s THEN s[i] ELSE 0

calc_normx(nvert, ys) ==
    [i \in 1..nvert |-> At(ys, (i % nvert) + 1) - At(ys, i)]

calc_normy(nvert, xs) ==
    [i \in 1..nvert |-> -(At(xs, (i % nvert) + 1) - At(xs, i))]

----------------------------------------------------------------------------
(* struct Collidable *)

Collidable(t, i, shape, cx, cy, r, w, h, n, vx, vy, nx, ny) ==
    [collidable_type |-> t, collidable_shape |-> shape, collidable_id |-> i,
     centrex |-> cx, centrey |-> cy, radius |-> r, width |-> w, height |-> h,
     nvert |-> n, vertx |-> vx, verty |-> vy, normx |-> nx, normy |-> ny]

\* no value: the constructor did not return
NoCollidable ==
    Collidable(0, 0, "None", 0, 0, 0, 0, 0, 0, <<>>, <<>>, <<>>, <<>>)

new_circle(t, i, cx, cy, r) ==
    Collidable(t, i, "Circle", cx, cy, r, Twice(r), Twice(r),
               0, <<>>, <<>>, <<>>, <<>>)

RECURSIVE arc_loop(_, _, _, _, _, _)
\* for _ in 0..nvert - 2 { push p; dir = rotate(minor_arc, dir); p = centre + dir }
arc_loop(n, cx, cy, dir, vx, vy) ==
    IF n = 0 THEN [vertx |-> vx, verty |-> vy]
    ELSE arc_loop(n - 1, cx, cy, Rotate(minor_arc, dir),
                  Append(vx, PointX(cx, dir)), Append(vy, PointY(cy, dir)))

\* The call's result: how it ended and, when it returned, the value.
new_arc(t, id, cx, cy, r, dirx, diry, rad) ==
    LET sum == AsUsize(rad \div minor_arc) + 2
        nvert == Wrap(sum)
        count == Wrap(nvert - 2)
        start == Scaled(Rotate(-Half(rad), normalize(<<dirx, diry>>)), r)
        loop == arc_loop(count, cx, cy, start, <<cx>>, <<cy>>)
        end == Scaled(Rotate(Half(rad), normalize(<<dirx, diry>>)), r)
        vertx == Append(loop.vertx, PointX(cx, end))
        verty == Append(loop.verty, PointY(cy, end))
    IN  IF overflow_checks /\ (sum > UsizeMax \/ nvert < 2)
        THEN [outcome |-> "panic", value |-> NoCollidable]
        ELSE IF nvert > VecMaxLen \/ count + 2 > VecMaxLen
        THEN [outcome |-> "abort", value |-> NoCollidable]
        ELSE [outcome |-> "ok",
              value |-> Collidable(t, id, "Polygon", cx, cy, r, Twice(r), Twice(r),
                                   nvert, vertx, verty,
                                   calc_normx(nvert, verty), calc_normy(nvert, vertx))]

\* sort_unstable_by(|a, b| a.partial_cmp(b).unwrap_or(Equal))
sorted(s) == SortSeq(s, LAMBDA a, b : a < b)

\* s.first().unwrap_or(&0.), s.last().unwrap_or(&0.)
first_or_zero(s) == IF s = <<>> THEN 0 ELSE s[1]
last_or_zero(s) == IF s = <<>> THEN 0 ELSE s[Len(s)]

\* new_poly taking the centre from the extent alone, the minimum forgotten
new_poly_centre_from_extent(t, i, nvert, vertx, verty) ==
    LET sortedx == sorted(vertx)
        minx == first_or_zero(sortedx)
        width == last_or_zero(sortedx) - minx
        sortedy == sorted(verty)
        miny == first_or_zero(sortedy)
        height == last_or_zero(sortedy) - miny
    IN  Collidable(t, i, "Polygon", Half(width), Half(height), 0,
                   width, height, nvert, vertx, verty,
                   calc_normx(nvert, verty), calc_normy(nvert, vertx))

\* new_poly storing a bounding radius, as new_arc does
new_poly_bounding_radius(t, i, nvert, vertx, verty) ==
    LET sortedx == sorted(vertx)
        minx == first_or_zero(sortedx)
        width == last_or_zero(sortedx) - minx
        sortedy == sorted(verty)
        miny == first_or_zero(sortedy)
        height == last_or_zero(sortedy) - miny
    IN  Collidable(t, i, "Polygon", minx + Half(width), miny + Half(height),
                   Half(width), width, height, nvert, vertx, verty,
                   calc_normx(nvert, verty), calc_normy(nvert, vertx))

new_poly(t, i, nvert, vertx, verty) ==
    LET sortedx == sorted(vertx)
        minx == first_or_zero(sortedx)
        width == last_or_zero(sortedx) - minx
        sortedy == sorted(verty)
        miny == first_or_zero(sortedy)
        height == last_or_zero(sortedy) - miny
    IN  Collidable(t, i, "Polygon", minx + Half(width), miny + Half(height), 0,
                   width, height, nvert, vertx, verty,
                   calc_normx(nvert, verty), calc_normy(nvert, vertx))

\* new_rect re-deriving the extents from the corners (max - min)
new_rect_derived_extents(t, i, x, y, w, h) ==
    LET vertx == <<x, x + w, x + w, x>>
        verty == <<y, y, y + h, y + h>>
    IN  Collidable(t, i, "Polygon", x + Half(w), y + Half(h), 0,
                   IF w < 0 THEN -w ELSE w, IF h < 0 THEN -h ELSE h,
                   4, vertx, verty, calc_normx(4, verty), calc_normy(4, vertx))

new_rect(t, i, x, y, w, h) ==
    LET vertx == <<x, x + w, x + w, x>>
        verty == <<y, y, y + h, y + h>>
    IN  Collidable(t, i, "Polygon", x + Half(w), y + Half(h), 0, w, h,
                   4, vertx, verty, calc_normx(4, verty), calc_normy(4, vertx))

\* update_normals reading the normal arrays where it should read the vertices
update_normals_from_normals(self) ==
    [self EXCEPT !.normx = calc_normx(self.nvert, self.normy),
                 !.normy = calc_normy(self.nvert, self.normx)]

\* update_normals with the two axes exchanged
update_normals_swapped(self) ==
    [self EXCEPT !.normx = calc_normx(self.nvert, self.vertx),
                 !.normy = calc_normy(self.nvert, self.verty)]

update_normals(self) ==
    [self EXCEPT !.normx = calc_normx(self.nvert, self.verty),
                 !.normy = calc_normy(self.nvert, self.vertx)]

----------------------------------------------------------------------------
(* The inputs explored *)

Types == {1}
Ids == {7}
Centres == {0, 3 * FP}
Radii == {-FP, 0, FP, 2 * FP}
ArcRadii == {FP, 2 * FP}

\* an angle no usize holds the step count of
HugeRad == 8 * (UsizeMax + 1)
Rads == {-8, 0, 2, 4, 10, PI \div 2, HugeRad}

PolyCoords == {-2 * FP, 4 * FP}
PolySeqs == UNION {[1..n -> PolyCoords] : n \in 0..MaxLen}
ExamplePolys ==
    {[nvert |-> 4, vertx |-> <<0, 4 * FP, 4 * FP, 0>>,
      verty |-> <<0, 0, 3 * FP, 3 * FP>>]}
PolyInputs == [nvert : 0..MaxLen, vertx : PolySeqs, verty : PolySeqs]
              \cup ExamplePolys

RectXs == {0, FP}
RectYs == {0, -FP}
RectWs == {-3 * FP, 10 * FP}
RectHs == {-3 * FP, 20 * FP}

NoCall ==
    [op |-> "none", t |-> 0, id |-> 0, cx |-> 0, cy |-> 0, r |-> 0,
     dirx |-> 0, diry |-> 0, rad |-> 0, nvert |-> 0, vertx |-> <<>>,
     verty |-> <<>>, x |-> 0, y |-> 0, w |-> 0, h |-> 0]

Vertices(v) == [vertx |-> v.vertx, verty |-> v.verty]

----------------------------------------------------------------------------
(* Operations *)

\* what every returning constructor call leaves behind
Built(v, call) ==
    /\ c' = v
    /\ outcome' = "ok"
    /\ ctor' = call
    /\ last' = call.op
    /\ updates' = 0
    /\ snap' = Vertices(v)
    /\ muts' = 0
    /\ UNCHANGED overflow_checks

\* the owner holds no Collidable yet
Init ==
    /\ overflow_checks \in BOOLEAN
    /\ c = NoCollidable
    /\ ctor = NoCall
    /\ outcome = "ok"
    /\ last = "none"
    /\ updates = 0
    /\ snap = Vertices(NoCollidable)
    /\ muts = 0

\* a Collidable is created once, by one of the four constructors
Unbuilt == outcome = "ok" /\ c = NoCollidable

NewCircle ==
    /\ Unbuilt
    /\ \E t \in Types, i \in Ids, cx \in Centres, r \in Radii :
          Built(new_circle(t, i, cx, 0, r),
                [NoCall EXCEPT !.op = "new_circle", !.t = t, !.id = i,
                               !.cx = cx, !.r = r])

NewArc ==
    /\ Unbuilt
    /\ \E t \in Types, i \in Ids, cx \in Centres, r \in ArcRadii,
          d \in Dirs, rad \in Rads :
          LET res == new_arc(t, i, cx, 0, r, d[1], d[2], rad)
              call == [NoCall EXCEPT !.op = "new_arc", !.t = t, !.id = i,
                                     !.cx = cx, !.r = r, !.dirx = d[1],
                                     !.diry = d[2], !.rad = rad]
          IN  IF res.outcome = "ok"
              THEN Built(res.value, call)
              ELSE /\ c' = NoCollidable
                   /\ outcome' = res.outcome
                   /\ ctor' = call
                   /\ last' = "new_arc"
                   /\ updates' = 0
                   /\ snap' = Vertices(NoCollidable)
                   /\ muts' = 0
                   /\ UNCHANGED overflow_checks

NewPoly ==
    /\ Unbuilt
    /\ \E t \in Types, i \in Ids, p \in PolyInputs :
          Built(new_poly(t, i, p.nvert, p.vertx, p.verty),
                [NoCall EXCEPT !.op = "new_poly", !.t = t, !.id = i,
                               !.nvert = p.nvert, !.vertx = p.vertx,
                               !.verty = p.verty])

NewRect ==
    /\ Unbuilt
    /\ \E t \in Types, i \in Ids, x \in RectXs, y \in RectYs,
          w \in RectWs, h \in RectHs :
          Built(new_rect(t, i, x, y, w, h),
                [NoCall EXCEPT !.op = "new_rect", !.t = t, !.id = i,
                               !.x = x, !.y = y, !.w = w, !.h = h])

\* the owner writes one coordinate of one vertex in place
MutateVertex ==
    /\ c # NoCollidable
    /\ muts < MaxMutations
    /\ \E v \in PolyCoords :
          \/ \E k \in DOMAIN c.vertx : c' = [c EXCEPT !.vertx[k] = v]
          \/ \E k \in DOMAIN c.verty : c' = [c EXCEPT !.verty[k] = v]
    /\ muts' = muts + 1
    /\ last' = "mutate"
    /\ updates' = 0
    /\ UNCHANGED <<outcome, overflow_checks, ctor, snap>>

UpdateNormals ==
    /\ c # NoCollidable
    /\ c' = update_normals(c)
    /\ snap' = Vertices(c)
    /\ last' = "update_normals"
    /\ updates' = IF updates < 2 THEN updates + 1 ELSE updates
    /\ UNCHANGED <<outcome, overflow_checks, ctor, muts>>

Next ==
    \/ NewCircle
    \/ NewArc
    \/ NewPoly
    \/ NewRect
    \/ MutateVertex
    \/ UpdateNormals

Spec == Init /\ [][Next]_vars

----------------------------------------------------------------------------
(* Properties *)

IsPolygon == c.collidable_shape = "Polygon"

Range(s) == {s[k] : k \in DOMAIN s}
SeqMax(s) == CHOOSE m \in Range(s) : \A v \in Range(s) : v <= m
SeqMin(s) == CHOOSE m \in Range(s) : \A v \in Range(s) : m <= v

\* C1: every Polygon has vertx, verty, normx and normy all of length nvert,
\* whatever nvert and vectors the caller of new_poly supplied.
C1_LengthsAgree ==
    IsPolygon =>
        /\ Len(c.vertx) = c.nvert
        /\ Len(c.verty) = c.nvert
        /\ Len(c.normx) = c.nvert
        /\ Len(c.normy) = c.nvert

\* C2 as stated: for sector_angle > 0 new_arc's polygon has
\* floor(sector_angle / (pi/16)) + 2 vertices.
C2_StepSixteenth ==
    (ctor.op = "new_arc" /\ outcome = "ok" /\ ctor.rad > 0) =>
        /\ c.nvert = (ctor.rad \div (PI \div 16)) + 2
        /\ Len(c.vertx) = c.nvert
        /\ Len(c.verty) = c.nvert

\* C2 amended: the angular step is pi/8, and whenever new_arc returns for a
\* sector_angle > 0 the polygon has floor(sector_angle / (pi/8)) + 2
\* vertices; a sector of pi/2 has 6.
C2_StepEighth ==
    (ctor.op = "new_arc" /\ outcome = "ok" /\ ctor.rad > 0) =>
        /\ c.nvert = (ctor.rad \div (PI \div 8)) + 2
        /\ Len(c.vertx) = c.nvert
        /\ Len(c.verty) = c.nvert
        /\ (ctor.rad = PI \div 2 => c.nvert = 6)

C2_Witness ==
    /\ ctor.op = "new_arc"
    /\ outcome = "ok"
    /\ ctor.rad = PI \div 2
    /\ Len(c.vertx) = 6

\* C3 as stated: the radius of every Polygon is 0, arcs included.
C3_PolygonRadiusZero == IsPolygon => c.radius = 0

\* C3 amended: the radius of a Polygon built by new_poly or new_rect is 0;
\* the radius of one built by new_arc is the input radius r.
C3_PolygonRadius ==
    IsPolygon =>
        IF ctor.op = "new_arc" THEN c.radius = ctor.r ELSE c.radius = 0

C3_Witness ==
    /\ IsPolygon
    /\ ctor.op = "new_arc"
    /\ c.radius = 2 * FP
    /\ last = "update_normals"

\* C4: for non-empty vertex input new_poly returns the bounding box of the
\* vertices (width, height, centre, each axis on its own) and the vertex
\* arrays in the caller's order; new_poly(4, [0,4,4,0], [0,0,3,3]) has
\* width 4, height 3 and centre (2, 1.5).
C4_PolyBoundingBox ==
    (last = "new_poly" /\ ctor.vertx # <<>> /\ ctor.verty # <<>>) =>
        /\ c.width = SeqMax(ctor.vertx) - SeqMin(ctor.vertx)
        /\ c.height = SeqMax(ctor.verty) - SeqMin(ctor.verty)
        /\ 2 * c.centrex = 2 * SeqMin(ctor.vertx) + c.width
        /\ 2 * c.centrey = 2 * SeqMin(ctor.verty) + c.height
        /\ c.vertx = ctor.vertx
        /\ c.verty = ctor.verty
        /\ (/\ ctor.vertx = <<0, 4 * FP, 4 * FP, 0>>
            /\ ctor.verty = <<0, 0, 3 * FP, 3 * FP>>)
           => (/\ c.width = 4 * FP
               /\ c.height = 3 * FP
               /\ c.centrex = 2 * FP
               /\ 2 * c.centrey = 3 * FP)

C4_Witness ==
    /\ last = "new_poly"
    /\ c.vertx = <<4 * FP, -2 * FP>>
    /\ c.verty = <<-2 * FP>>
    /\ c.width = 6 * FP
    /\ c.centrex = FP

\* C5: new_poly called with nvert = 0 returns width 0, height 0 and centre
\* (0, 0), whatever vertex vectors come with it.
C5_EmptyFallback ==
    (last = "new_poly" /\ ctor.nvert = 0) =>
        /\ c.width = 0
        /\ c.height = 0
        /\ c.centrex = 0
        /\ c.centrey = 0

\* C6: new_rect returns 4 vertices (x,y), (x+w,y), (x+w,y+h), (x,y+h) in
\* that order, centre (x + w/2, y + h/2), and width w and height h verbatim,
\* negative ones included.
C6_RectCorners ==
    last = "new_rect" =>
        /\ c.nvert = 4
        /\ Len(c.vertx) = 4
        /\ Len(c.verty) = 4
        /\ <<c.vertx[1], c.verty[1]>> = <<ctor.x, ctor.y>>
        /\ <<c.vertx[2], c.verty[2]>> = <<ctor.x + ctor.w, ctor.y>>
        /\ <<c.vertx[3], c.verty[3]>> = <<ctor.x + ctor.w, ctor.y + ctor.h>>
        /\ <<c.vertx[4], c.verty[4]>> = <<ctor.x, ctor.y + ctor.h>>
        /\ 2 * c.centrex = 2 * ctor.x + ctor.w
        /\ 2 * c.centrey = 2 * ctor.y + ctor.h
        /\ c.width = ctor.w
        /\ c.height = ctor.h
        /\ (<<ctor.x, ctor.y, ctor.w, ctor.h>> = <<0, 0, 10 * FP, 20 * FP>>
            => /\ c.vertx = <<0, 10 * FP, 10 * FP, 0>>
               /\ c.verty = <<0, 0, 20 * FP, 20 * FP>>
               /\ <<c.centrex, c.centrey>> = <<5 * FP, 10 * FP>>)

C6_Witness ==
    /\ last = "new_rect"
    /\ ctor.w < 0
    /\ ctor.h > 0
    /\ c.width = ctor.w
    /\ c.vertx[2] < c.vertx[1]

\* C7: update_normals changes no field but normx and normy, and a second
\* call right after a first, the vertices untouched in between, changes
\* nothing at all.
C7_UpdateIdempotent ==
    [][last' = "update_normals" =>
          /\ [c' EXCEPT !.normx = <<>>, !.normy = <<>>]
               = [c EXCEPT !.normx = <<>>, !.normy = <<>>]
          /\ (last = "update_normals" => c' = c)]_vars

C7_Witness ==
    /\ updates = 2
    /\ muts > 0
    /\ IsPolygon
    /\ \E k \in DOMAIN c.normx : c.normx[k] # 0
    /\ \E k \in DOMAIN c.normy : c.normy[k] # 0

\* C8: every constructor call returns a Collidable: none panics, none fails
\* to terminate, for any finite input.
C8_ConstructorsTotal == outcome = "ok"

\* C9: for sector_angle >= 0 new_arc's polygon is the apex (cx, cy), then
\* the point at -sector_angle/2 from the bisector at distance r, then one
\* point per angular step, and last the point at +sector_angle/2.
C9_ArcLayout ==
    (last = "new_arc" /\ outcome = "ok" /\ ctor.rad >= 0) =>
        LET n == Len(c.vertx)
            bisector == normalize(<<ctor.dirx, ctor.diry>>)
            At_(a) == Scaled(Rotate(a, bisector), ctor.r)
            P(a) == <<PointX(ctor.cx, At_(a)), PointY(ctor.cy, At_(a))>>
            V(k) == <<c.vertx[k], c.verty[k]>>
        IN  /\ n = Len(c.verty)
            /\ n >= 2
            /\ V(1) = <<ctor.cx, ctor.cy>>
            /\ V(2) = P(-Half(ctor.rad))
            /\ \A k \in 3..(n - 1) :
                  V(k) = P(-Half(ctor.rad) + (k - 2) * ((2 * PI) \div 16))
            /\ V(n) = P(Half(ctor.rad))

\* C10: the normals of a polygon are the edge-normal oracle's result on
\* nvert and the vertex arrays as they were at the last construction or
\* update_normals call: a vertex mutation leaves them alone, and right after
\* update_normals they are the oracle's result on the current vertices.
C10_NormalsAsOfLastRefresh ==
    /\ [](IsPolygon => /\ c.normx = calc_normx(c.nvert, snap.verty)
                       /\ c.normy = calc_normy(c.nvert, snap.vertx))
    /\ [][last' = "mutate" => /\ c'.normx = c.normx
                             /\ c'.normy = c.normy]_vars
    /\ [][last' = "update_normals" =>
             /\ c'.normx = calc_normx(c'.nvert, c'.verty)
             /\ c'.normy = calc_normy(c'.nvert, c'.vertx)]_vars

C10_Witness ==
    /\ IsPolygon
    /\ last = "mutate"
    /\ ctor.op = "new_poly"
    /\ snap # Vertices(ctor)
    /\ c.normx = calc_normx(c.nvert, snap.verty)
    /\ c.normx # calc_normx(c.nvert, c.verty)

====
